---- MODULE Spec2Model ----
(***************************************************************************)
(* A model of generators.js: lazily evaluated sequence generators.         *)
(*                                                                         *)
(* One cursor is created by one call of an exported generator function and *)
(* is then advanced by next().  The state holds the call (op and its       *)
(* arguments), the suspended generator (its frames and the arrays it       *)
(* works on), and the history of what the cursor has yielded.              *)
(***************************************************************************)
EXTENDS Integers, Sequences, FiniteSets, TLC

MaxN == 4      \* longest pool handed to the combinatorial generators
MaxG == 3      \* most groups in a size vector of partitions
MaxK == 3      \* most sequences handed to zip or product
MaxLen == 3    \* longest sequence handed to zip or product
MaxOut == 4    \* advances followed on a cursor that never ends
MaxTimes == 3  \* largest count handed to cycle or repeat
MaxIdx == 3    \* longest index sequence handed to take
MaxAfter == 2  \* advances followed after a cursor has signalled exhaustion
MaxStop == 3   \* largest start or stop handed to range, either side of zero
MaxStep == 2   \* largest step handed to range, either side of zero

VARIABLES
    op,         \* the generator function that was called
    pool,       \* the items of the iterable when the call was made
    array,      \* the caller's array the generator works on, as it is now
    n,          \* second argument of combinations
    return_unused, \* third argument of combinations
    rest,       \* what permutations, cycle and repeat are handed after
                \* their first argument; all the arguments of range
    sizes,      \* second argument of partitions
    iterables,  \* the arguments of zip / product / chain, the iterable of
                \* take / cycle
    indices,    \* second argument of take
    status,     \* "fresh" | "suspended" | "done", or "hung" when an advance
                \* never comes back
    after,      \* advances made since the cursor signalled exhaustion
    error,      \* "none" | "RangeError": what an advance has thrown
    out,        \* the items yielded so far, in order
    frames,     \* the suspended generator frames, outermost first
    unused,     \* the shared `unused` array of array_combinations
    iterators   \* the cursors zip / product read from

vars == <<op, pool, array, n, return_unused, rest, sizes, iterables, indices,
          status, after, error, out, frames, unused, iterators>>

----------------------------------------------------------------------------
(* Arrays *)

Iota(k) == [i \in 1..k |-> i]

\* array.toSpliced(i, 1), i counted from 1
toSpliced(a, i) == [j \in 1..(Len(a) - 1) |-> IF j < i THEN a[j] ELSE a[j + 1]]

\* the item goes back by its value, before the first greater one
spliceSorted(a, i, item) ==
    LET less == {j \in 1..Len(a) : \A q \in 1..j : a[q] <= item}
        at   == Cardinality(less) + 1
    IN  [j \in 1..(Len(a) + 1) |-> IF j < at THEN a[j]
                                   ELSE IF j = at THEN item ELSE a[j - 1]]

\* the item goes back to the end of the array: array.push(item)
spliceAtEnd(a, i, item) == Append(a, item)

\* array.splice(i, 0, item), i counted from 1; a start past the end of the
\* array is the end of the array
spliceIn(a, i, item) ==
    LET at == IF i > Len(a) + 1 THEN Len(a) + 1 ELSE i
    IN  [j \in 1..(Len(a) + 1) |-> IF j < at THEN a[j]
                                   ELSE IF j = at THEN item ELSE a[j - 1]]

\* unused.pop()
pop(a) == IF Len(a) = 0 THEN a ELSE SubSeq(a, 1, Len(a) - 1)

\* a yielded value that holds the shared `unused` array itself, not a copy
\* of it, holds this marker in its place (no pool holds a value below 1);
\* so does a yielded value that is a shared array itself
Ref == <<0 - 1>>

\* the array a yielded value holds in its last slot: the shared `unused`
\* array as it is now when the slot holds the reference, else the copy
Deref(v, un) == IF v = Ref THEN un ELSE v

----------------------------------------------------------------------------
(* Generator results.  A step of a generator body ends in a yield, in a   *)
(* return or in a throw; st is the generator state it leaves behind.      *)

Yield(v, fr, un) == [res |-> "yield", val |-> v, frames |-> fr, unused |-> un]
Return(un)       == [res |-> "done", val |-> <<>>, frames |-> <<>>, unused |-> un]
Throw(un)        == [res |-> "throw", val |-> <<>>, frames |-> <<>>, unused |-> un]

Frame(k, a, m, p, it) == [k |-> k, array |-> a, n |-> m, pos |-> p, items |-> it]

\* prefix that puts the item behind the front of the value, before its last
\* entry: yield [...p.slice(0, -1), item, ...p.slice(-1)]
prefixBehind(item, p) ==
    IF p = <<>> THEN <<item>>
    ELSE SubSeq(p, 1, Len(p) - 1) \o <<item, p[Len(p)]>>

\* function* prefix(item, iterable): yield [item, ...p]
prefix(item, p) == <<item>> \o p

----------------------------------------------------------------------------
(* combinations(iterable, n, return_unused) and array_combinations        *)

\* the wrappers prefix(item, ...) a value passes through on its way out of
\* the nested array_combinations frames fr[1..d]
RECURSIVE combWrap(_, _, _)
combWrap(fr, d, v) ==
    IF d = 0 THEN v
    ELSE IF fr[d].k = "split" /\ fr[d].pos = 1
         THEN combWrap(fr, d - 1, prefix(Head(fr[d].array), v))
         ELSE combWrap(fr, d - 1, v)

\* the unused items behind the rest of the array:
\* [item, [...array.toSpliced(i, 1), ...unused]]
combItemsRestFirst(a, ru, un) ==
    [i \in 1..Len(a) |-> IF ru THEN <<a[i], toSpliced(a, i) \o un>>
                               ELSE <<a[i]>>]

\* array.map((item, i) => [item, [...unused, ...array.toSpliced(i, 1)]])
\* or array.map((item) => [item])
combItems(a, ru, un) ==
    [i \in 1..Len(a) |-> IF ru THEN <<a[i], un \o toSpliced(a, i)>>
                               ELSE <<a[i]>>]

\* the range check that also turns down n == array.length for n > 1
rangeErrorFromTwo(a, m) == m <= 0 \/ m > Len(a) \/ (m = Len(a) /\ m > 1)

\* the range check with n < 0 for n <= 0
rangeErrorBelowZero(a, m) == m < 0 \/ m > Len(a)

\* the range check with n >= array.length for n > array.length
rangeErrorAtLength(a, m) == m <= 0 \/ m >= Len(a)

\* if (n <= 0 || n > array.length)
rangeError(a, m) == m <= 0 \/ m > Len(a)

\* the body of array_combinations(array, n, unused) from its first line
\* to its first yield; ru says that unused is an array and not false
RECURSIVE array_combinations(_, _, _, _, _)
array_combinations(a, m, ru, un, fr) ==
    IF rangeError(a, m) THEN Throw(un)
    ELSE IF m = 1
    THEN LET it == combItems(a, ru, un)
             f  == Append(fr, Frame("list", a, m, 1, it))
         IN  Yield(combWrap(f, Len(f), it[1]), f, un)
    ELSE IF m = Len(a)
    THEN LET f == Append(fr, Frame("single", a, m, 1, <<>>))
         IN  Yield(combWrap(f, Len(f), IF ru THEN a \o <<Ref>> ELSE a), f, un)
    ELSE array_combinations(Tail(a), m - 1, ru, un,
                            Append(fr, Frame("split", a, m, 1, <<>>)))

\* a nested array_combinations has returned into the frame fr[Len(fr)]
RECURSIVE combReturn(_, _, _)
combReturn(fr, ru, un) ==
    IF fr = <<>> THEN Return(un)
    ELSE LET d == Len(fr)
             f == fr[d]
         IN  IF f.pos = 1
             THEN \* unused?.push?.(item); yield* array_combinations(rest, n, unused)
                  array_combinations(Tail(f.array), f.n, ru,
                      IF ru THEN Append(un, Head(f.array)) ELSE un,
                      [fr EXCEPT ![d].pos = 2])
             ELSE \* unused?.pop?.(item)
                  combReturn(SubSeq(fr, 1, d - 1), ru, IF ru THEN pop(un) ELSE un)

\* next() on a suspended array_combinations
combResume(fr, ru, un) ==
    LET d == Len(fr)
        f == fr[d]
    IN  IF f.k = "list" /\ f.pos < Len(f.items)
        THEN LET g == [fr EXCEPT ![d].pos = f.pos + 1]
             IN  Yield(combWrap(g, d, f.items[f.pos + 1]), g, un)
        ELSE combReturn(SubSeq(fr, 1, d - 1), ru, un)

\* next() on the cursor of combinations(array, n, return_unused)
combinationsNext(st, a, m, ru, fr, un) ==
    IF st = "fresh" THEN array_combinations(a, m, ru, <<>>, <<>>)
    ELSE combResume(fr, ru, un)

----------------------------------------------------------------------------
(* permutations(iterable) and array_permutations                          *)

\* a step of array_permutations: what it yields or that it returned, and
\* the shared array and the frames <<i, item>> it leaves behind
PYield(v, a, fr) == [res |-> "yield", val |-> v, array |-> a, frames |-> fr]
PReturn(a)       == [res |-> "done", val |-> <<>>, array |-> a, frames |-> <<>>]

\* the prefix(item[0], ...) wrappers of the frames fr[1..d]
RECURSIVE permWrap(_, _, _)
permWrap(fr, d, v) ==
    IF d = 0 THEN v ELSE permWrap(fr, d - 1, prefix(fr[d].item, v))

\* the body of array_permutations(array) from its first line to the first
\* yield below it; i is counted from 0 as in the source
RECURSIVE array_permutations(_, _)
array_permutations(a, fr) ==
    IF Len(a) <= 1 THEN PYield(permWrap(fr, Len(fr), a), a, fr)
    ELSE \* i = 0: let item = array.splice(i, 1)
         array_permutations(toSpliced(a, 1),
                            Append(fr, [i |-> 0, item |-> a[1]]))

\* the nested array_permutations has returned into the loop of fr[Len(fr)]
RECURSIVE permReturn(_, _)
permReturn(a, fr) ==
    IF fr = <<>> THEN PReturn(a)
    ELSE LET d  == Len(fr)
             up == SubSeq(fr, 1, d - 1)
             b  == spliceIn(a, fr[d].i + 1, fr[d].item)  \* array.splice(i, 0, item[0])
             i  == fr[d].i + 1                           \* i++
         IN  IF i < Len(b)
             THEN array_permutations(toSpliced(b, i + 1),
                                     Append(up, [i |-> i, item |-> b[i + 1]]))
             ELSE permReturn(b, up)

\* permutations with the range check of combinations on an empty array
permutationsNextChecked(st, a, fr) ==
    IF st = "fresh"
    THEN IF Len(a) = 0
         THEN [res |-> "throw", val |-> <<>>, array |-> a, frames |-> <<>>]
         ELSE array_permutations(a, <<>>)
    ELSE permReturn(a, fr)

\* next() on the cursor of permutations(array); a second argument is not
\* a parameter of the function and is dropped by the call
permutationsNext(st, a, fr) ==
    IF st = "fresh" THEN array_permutations(a, <<>>)
    ELSE permReturn(a, fr)

----------------------------------------------------------------------------
(* partitions(iterable, sizes) and array_partitions                       *)

Level(a, sz, fr, un, c) ==
    [array |-> a, sizes |-> sz, frames |-> fr, unused |-> un, c |-> c]

\* the prefix(c, ...) wrappers of the levels lv[1..d]
RECURSIVE partWrap(_, _, _)
partWrap(lv, d, v) ==
    IF d = 0 THEN v ELSE partWrap(lv, d - 1, prefix(lv[d].c, v))

\* the loop body of array_partitions for the value r.val that the cursor of
\* combinations(array, sizes[0], true) has just yielded:
\* let unused = c.pop(), then [...unused]
partUnused(r) == Deref(r.val[Len(r.val)], r.unused)

\* the size check with > for !=
sizeErrorAbove(a, sz) == sz[1] > Len(a)

\* if (sizes[0] != array.length)
sizeError(a, sz) == sz[1] # Len(a)

\* the body of array_partitions(array, sizes) from its first line to the
\* first yield below it; lv are the enclosing array_partitions
RECURSIVE array_partitions(_, _, _)
array_partitions(a, sz, lv) ==
    IF Len(sz) = 1
    THEN IF sizeError(a, sz) THEN Throw(<<>>)
         ELSE Yield(partWrap(lv, Len(lv), <<a>>), lv, <<>>)
    ELSE LET r == combinationsNext("fresh", a, sz[1], TRUE, <<>>, <<>>)
         IN  IF r.res = "throw" THEN Throw(<<>>)
             ELSE IF r.res = "done" THEN Return(<<>>)
             ELSE array_partitions(partUnused(r), Tail(sz),
                      Append(lv, Level(a, sz, r.frames, r.unused, pop(r.val))))

\* the nested array_partitions has returned into the for loop of the level
\* lv[Len(lv)], which advances its combinations cursor
RECURSIVE partReturn(_)
partReturn(lv) ==
    IF lv = <<>> THEN Return(<<>>)
    ELSE LET d  == Len(lv)
             up == SubSeq(lv, 1, d - 1)
             r  == combinationsNext("suspended", lv[d].array, lv[d].sizes[1],
                                    TRUE, lv[d].frames, lv[d].unused)
         IN  IF r.res = "throw" THEN Throw(<<>>)
             ELSE IF r.res = "done" THEN partReturn(up)
             ELSE array_partitions(partUnused(r), Tail(lv[d].sizes),
                      Append(up, Level(lv[d].array, lv[d].sizes, r.frames,
                                       r.unused, pop(r.val))))

\* next() on the cursor of partitions(array, sizes)
partitionsNext(st, a, sz, lv) ==
    IF st = "fresh" THEN array_partitions(a, sz, <<>>)
    ELSE partReturn(lv)

----------------------------------------------------------------------------
(* Sequences handed to zip and product.  An argument is an array, which   *)
(* hands out a new iterator whenever it is asked for one, or a generator  *)
(* object, which is its own iterator.  id names the iterator the argument *)
(* is read through: its own position for an array, the position of the    *)
(* first occurrence of the generator object for a generator.              *)

ValsOf(arg) == [i \in 1..arg.len |-> 10 * arg.id + i]

\* the length of a generator that never returns, such as count(start):
\* while (true) { yield start; start += step }
Endless == 0 - 1

\* the item a sequence holds in place k, counted from 1
itemOf(arg, k) == 10 * arg.id + k

\* i.next(): the iterator state after it, pos items read, adv calls made
nextOf(it) ==
    [pos |-> IF it.len = Endless \/ it.pos < it.len THEN it.pos + 1 ELSE it.pos,
     len |-> it.len, adv |-> it.adv + 1]

\* the result {done, value} of i.next() on the iterator state it
resultOf(arg, it) ==
    IF it.len = Endless \/ it.pos < it.len
    THEN [done |-> FALSE, value |-> itemOf(arg, it.pos + 1)]
    ELSE [done |-> TRUE, value |-> 0]

\* the iterators are read up to the first one that is done, and no
\* further
mapNextShort(args, its, p, acc) ==
    LET D == {q \in 1..Len(args) : resultOf(args[q], its[args[q].id]).done}
        last == IF D = {} THEN Len(args)
                ELSE CHOOSE q \in D : \A d \in D : q <= d
    IN  [result |-> [q \in 1..last |-> resultOf(args[q], its[args[q].id])],
         iterators |-> [id \in 1..Len(its) |->
                           IF id <= last THEN nextOf(its[id]) ELSE its[id]]]

\* every argument is read through an iterator of its own
mapNextApart(args, its, p, acc) ==
    [result |-> [q \in 1..Len(args) |-> resultOf(args[q], its[args[q].id])],
     iterators |-> [id \in 1..Len(its) |-> nextOf(its[id])]]

\* iterators.map((i) => i.next()) from position p on: the results, and the
\* iterators after the calls
RECURSIVE mapNext(_, _, _, _)
mapNext(args, its, p, acc) ==
    IF p > Len(args) THEN [result |-> acc, iterators |-> its]
    ELSE LET id == args[p].id
         IN  mapNext(args, [its EXCEPT ![id] = nextOf(its[id])], p + 1,
                     Append(acc, resultOf(args[p], its[id])))

\* every that fails on an array without entries
everyOfSome(result) ==
    result # <<>> /\ \A p \in 1..Len(result) : ~result[p].done

\* result.some((r) => !r.done)
some(result) == \E p \in 1..Len(result) : ~result[p].done

\* result.every((r) => !r.done)
every(result) == \A p \in 1..Len(result) : ~result[p].done

\* one turn of the while loop of zip
zipNext(args, its) ==
    LET m == mapNext(args, its, 1, <<>>)
    IN  IF every(m.result)
        THEN [res |-> "yield", iterators |-> m.iterators,
              val |-> [p \in 1..Len(args) |-> m.result[p].value]]
        ELSE [res |-> "done", iterators |-> m.iterators, val |-> <<>>]

----------------------------------------------------------------------------
(* product(...iterables) and array_product                                *)

\* [...i]: what is left of the iterator, which is read to its end
spread(arg, it) == SubSeq(ValsOf(arg), it.pos + 1, it.len)

unspent(it) == it

spent(it) == [pos |-> it.len, len |-> it.len,
              adv |-> it.adv + (it.len - it.pos) + 1]

\* iterables.map((i) => (i.next ? [...i] : i)) from position p on
RECURSIVE materialize(_, _, _, _)
materialize(args, its, p, acc) ==
    IF p > Len(args) THEN [arrays |-> acc, iterators |-> its]
    ELSE LET id == args[p].id
         IN  IF args[p].gen
             THEN materialize(args, [its EXCEPT ![id] = spent(its[id])], p + 1,
                              Append(acc, spread(args[p], its[id])))
             ELSE materialize(args, its, p + 1, Append(acc, ValsOf(args[p])))

\* the value a yield of the innermost array_product becomes on its way out:
\* itermap wraps the item, each enclosing level prefixes its own item
RECURSIVE prodWrap(_, _, _, _)
prodWrap(arrays, idx, d, v) ==
    IF d = 0 THEN v
    ELSE prodWrap(arrays, idx, d - 1, prefix(arrays[d][idx[d]], v))

prodValue(arrays, idx) ==
    LET k == Len(arrays)
    IN  prodWrap(arrays, idx, k - 1, <<arrays[k][idx[k]]>>)

PrYield(arrays, idx) ==
    [res |-> "yield", val |-> prodValue(arrays, idx), idx |-> idx]
PrReturn == [res |-> "done", val |-> <<>>, idx |-> <<>>]

\* array_product(arrays.slice(j - 1)) is entered, or has returned into the
\* for loop of level j; idx[i] is the item the loop of level i stands at
RECURSIVE array_product(_, _, _)
RECURSIVE prodReturn(_, _, _)
array_product(arrays, j, idx) ==
    IF Len(arrays[j]) = 0 THEN prodReturn(arrays, j - 1, idx)
    ELSE IF j = Len(arrays) THEN PrYield(arrays, Append(idx, 1))
    ELSE array_product(arrays, j + 1, Append(idx, 1))

prodReturn(arrays, j, idx) ==
    IF j = 0 THEN PrReturn
    ELSE IF idx[j] < Len(arrays[j])
    THEN LET nx == [idx EXCEPT ![j] = idx[j] + 1]
         IN  IF j = Len(arrays) THEN PrYield(arrays, nx)
             ELSE array_product(arrays, j + 1, nx)
    ELSE prodReturn(arrays, j - 1, SubSeq(idx, 1, j - 1))

\* the innermost level is left after its first item
productNextFirstOnly(st, arrays, idx) ==
    IF st = "fresh" THEN array_product(arrays, 1, <<>>)
    ELSE prodReturn(arrays, Len(arrays) - 1, SubSeq(idx, 1, Len(arrays) - 1))

\* next() on the cursor of product(...iterables) once the arguments are arrays
productNext(st, arrays, idx) ==
    IF st = "fresh" THEN array_product(arrays, 1, <<>>)
    ELSE prodReturn(arrays, Len(arrays), idx)

----------------------------------------------------------------------------
(* chain(...iterables)                                                    *)

restartIterator(arg, it) == [pos |-> 0, len |-> it.len, adv |-> 0]

\* it[Symbol.iterator](): an array hands out a new iterator, a generator
\* object hands out itself, as far as it has been read
getIterator(arg, it) ==
    IF arg.gen THEN it ELSE [pos |-> 0, len |-> it.len, adv |-> 0]

\* yield* it, from the next() that follows the last yield: p is the
\* iterable the for loop stands at
RECURSIVE chainRead(_, _, _)
chainRead(args, its, p) ==
    IF p > Len(args) THEN [res |-> "done", val |-> 0, iterators |-> its, p |-> p]
    ELSE LET id == args[p].id
             r  == resultOf(args[p], its[id])
             nx == [its EXCEPT ![id] = nextOf(its[id])]
         IN  IF ~r.done
             THEN [res |-> "yield", val |-> r.value, iterators |-> nx, p |-> p]
             ELSE \* for (let it of iterables): the next iterable
                  IF p = Len(args)
                  THEN [res |-> "done", val |-> 0, iterators |-> nx, p |-> p + 1]
                  ELSE chainRead(args,
                          [nx EXCEPT ![args[p + 1].id] =
                                getIterator(args[p + 1], nx[args[p + 1].id])],
                          p + 1)

chainNextFromLast(st, args, its, p) ==
    chainRead(args, its,
              IF st # "fresh" THEN p
              ELSE IF Len(args) >= 1 THEN Len(args) ELSE 1)

\* next() on the cursor of chain(...iterables)
chainNext(st, args, its, p) ==
    IF st = "fresh"
    THEN IF Len(args) = 0 THEN chainRead(args, its, 1)
         ELSE chainRead(args,
                 [its EXCEPT ![args[1].id] = getIterator(args[1], its[args[1].id])],
                 1)
    ELSE chainRead(args, its, p)

----------------------------------------------------------------------------
(* take(iterable, indices), read through enumerate(iterable)              *)

\* for (let [i, v] of enumerate(iterable)) from the next turn on: i is what
\* count yields next, idx the index waited for
RECURSIVE takeLoop(_, _, _, _)
takeLoop(arg, it, i, idx) ==
    LET r == resultOf(arg, it)
    IN  IF arg.len = Endless /\ idx < i
        THEN \* the index is behind and the source has no end: no turn of
             \* the loop yields or leaves it
             [res |-> "hang", val |-> 0, iterator |-> it, i |-> i]
        ELSE IF r.done
        THEN [res |-> "done", val |-> 0, iterator |-> nextOf(it), i |-> i]
        ELSE IF i = idx
        THEN [res |-> "yield", val |-> r.value, iterator |-> nextOf(it),
              i |-> i + 1]
        ELSE takeLoop(arg, nextOf(it), i + 1, idx)

\* the earlier take, which goes on with idx undefined when the indices
\* are used up
takeNextOn(arg, it, ind, fr) ==
    takeLoop(arg, it, fr.i, IF fr.ip >= Len(ind) THEN 0 - 1 ELSE ind[fr.ip + 1])

takeNextAnyIndex(arg, it, ind, fr) ==
    IF fr.ip >= Len(ind)
    THEN [res |-> "done", val |-> 0, iterator |-> it, i |-> fr.i]
    ELSE takeLoop(arg, it, fr.i, fr.i)

\* next() on the cursor of take(iterable, indices); ip indices are read.
\* idx = indices.next(); if (idx.done) return
takeNext(arg, it, ind, fr) ==
    IF fr.ip >= Len(ind)
    THEN [res |-> "done", val |-> 0, iterator |-> it, i |-> fr.i]
    ELSE takeLoop(arg, it, fr.i, ind[fr.ip + 1])

----------------------------------------------------------------------------
(* take(iterable, indices) as the documentation lists it: array_take for  *)
(* an array or a string, and a scan with a cache for any other iterable   *)

\* array[v] of indices.map((v) => array[v]): undefined (0) where the array
\* has no such place
array_take(arg, v) ==
    IF v >= 0 /\ v < arg.len THEN itemOf(arg, v + 1) ELSE 0

TakeFrame(ip, i, cache, left) ==
    [ip |-> ip, i |-> i, cache |-> cache, left |-> left]

\* for (let [iterable_index, value] of iterator) for the index looked for:
\* i is what enumerate yields next; the yield of a match is followed by
\* `break main`, which the frame notes in `left`
RECURSIVE cacheScan(_, _, _, _, _, _)
cacheScan(arg, it, ind, ip, i, cache) ==
    LET index == ind[ip + 1]
        r     == resultOf(arg, it)
    IN  IF arg.len = Endless /\ index < i
        THEN [res |-> "hang", val |-> 0, iterator |-> it,
              frames |-> TakeFrame(ip, i, cache, FALSE)]
        ELSE IF r.done
        THEN \* yield (cache[index] = undefined)
             [res |-> "yield", val |-> 0, iterator |-> nextOf(it),
              frames |-> TakeFrame(ip + 1, i, (index :> 0) @@ cache, FALSE)]
        ELSE LET saved == IF \E k \in 1..Len(ind) : ind[k] = i
                          THEN (i :> r.value) @@ cache ELSE cache
             IN  IF index = i
                 THEN [res |-> "yield", val |-> saved[index],
                       iterator |-> nextOf(it),
                       frames |-> TakeFrame(ip + 1, i + 1, saved, TRUE)]
                 ELSE cacheScan(arg, nextOf(it), ind, ip, i + 1, saved)

\* next() on the cursor of the documented take(iterable, indices)
takeCachedNext(arg, it, ind, fr) ==
    IF fr.left \/ fr.ip >= Len(ind)
    THEN [res |-> "done", val |-> 0, iterator |-> it, frames |-> fr]
    ELSE IF ~arg.gen
    THEN \* yield* array_take(iterable, indices)
         [res |-> "yield", val |-> array_take(arg, ind[fr.ip + 1]),
          iterator |-> it,
          frames |-> TakeFrame(fr.ip + 1, fr.i, fr.cache, FALSE)]
    ELSE IF ind[fr.ip + 1] \in DOMAIN fr.cache
    THEN \* cache hit
         [res |-> "yield", val |-> fr.cache[ind[fr.ip + 1]], iterator |-> it,
          frames |-> TakeFrame(fr.ip + 1, fr.i, fr.cache, FALSE)]
    ELSE cacheScan(arg, it, ind, fr.ip, fr.i, fr.cache)

----------------------------------------------------------------------------
(* cycle(iterable, n = Infinity) and repeat(item, n = Infinity)           *)

\* the parameter n: the count handed over, Infinity when there is none
countOf(r) == IF r = <<>> THEN [inf |-> TRUE, v |-> 0]
              ELSE [inf |-> FALSE, v |-> r[1]]

positiveOrZero(c) == c.inf \/ c.v >= 0

\* n-- > 0: the test on the count as it was, and the count after it
positive(c) == c.inf \/ c.v > 0
decrement(c) == IF c.inf THEN c ELSE [inf |-> FALSE, v |-> c.v - 1]

\* while (n-- > 0) yield* iterable, from the test of the while loop
RECURSIVE cycleLoop(_, _, _)
cycleLoop(arg, it, c) ==
    IF ~positive(c)
    THEN [res |-> "done", val |-> 0, iterator |-> it, n |-> decrement(c)]
    ELSE LET g == getIterator(arg, it)
             r == resultOf(arg, g)
         IN  IF ~r.done
             THEN [res |-> "yield", val |-> r.value, iterator |-> nextOf(g),
                   n |-> decrement(c)]
             ELSE IF c.inf
             THEN \* the same turn again, for ever
                  [res |-> "hang", val |-> 0, iterator |-> nextOf(g), n |-> c]
             ELSE cycleLoop(arg, nextOf(g), decrement(c))

\* next() on the cursor of cycle(iterable, n); c is n as the loop left it
cycleNext(st, arg, it, c) ==
    IF st = "fresh" THEN cycleLoop(arg, it, c)
    ELSE LET r == resultOf(arg, it)
         IN  IF ~r.done
             THEN [res |-> "yield", val |-> r.value, iterator |-> nextOf(it),
                   n |-> c]
             ELSE cycleLoop(arg, nextOf(it), c)

\* next() on the cursor of repeat(item, n): while (n-- > 0) yield item
repeatNext(item, c) ==
    IF positive(c) THEN [res |-> "yield", val |-> item, n |-> decrement(c)]
    ELSE [res |-> "done", val |-> 0, n |-> decrement(c)]

----------------------------------------------------------------------------
(* range(start, stop, step = 1)                                           *)

\* the parameters once `if (stop === undefined)` has put a lone argument
\* in the place of stop
rangeArgs(r) ==
    [start |-> IF Len(r) = 1 THEN 0 ELSE r[1],
     stop  |-> IF Len(r) = 1 THEN r[1] ELSE r[2],
     step  |-> IF Len(r) = 3 THEN r[3] ELSE 1]

\* the loop test that lets a descending range reach stop
insideOrAt(i, stop, step) == IF step > 0 THEN i < stop ELSE i >= stop

\* the test of the for loop the step selects: i < stop or i > stop
inside(i, stop, step) == IF step > 0 THEN i < stop ELSE i > stop

\* next() on the cursor of range(...r); i is the loop variable
rangeNext(st, a, i) ==
    LET v == IF st = "fresh" THEN a.start ELSE i + a.step
    IN  IF inside(v, a.stop, a.step)
        THEN [res |-> "yield", val |-> v, i |-> v]
        ELSE [res |-> "done", val |-> 0, i |-> v]

----------------------------------------------------------------------------
(* combination_indices(n, r) of the earlier version                       *)

\* the guard with >= for >
tooLongOrEqual(m, r) == r >= m

\* if (r > n) return
tooLong(m, r) == r > m

\* the rightmost position, counted from 1, whose index is not at its
\* maximum i + n - r; 0 stands for idx == -1
notAtMax(ind, m, r) ==
    LET S == {p \in 1..Len(ind) : ind[p] # (p - 1) + m - r}
    IN  IF S = {} THEN 0 ELSE CHOOSE p \in S : \A q \in S : q <= p

\* the increment without the loop that resets the positions to the right
advanceAlone(ind, p) == [ind EXCEPT ![p] = ind[p] + 1]

\* indices[idx] += 1, then indices[j] = indices[j - 1] + 1 for every j to
\* the right of idx
advance(ind, p) ==
    [j \in 1..Len(ind) |-> IF j < p THEN ind[j] ELSE ind[p] + 1 + (j - p)]

\* next() on the cursor of combination_indices(n, r): every yield hands out
\* the one array `indices`, which the next advance changes in place
combination_indicesNext(st, m, r, ind) ==
    IF st = "fresh"
    THEN IF tooLong(m, r) THEN [res |-> "done", val |-> <<>>, indices |-> ind]
         ELSE \* let indices = [...range(r)]
              [res |-> "yield", val |-> Ref, indices |-> [j \in 1..r |-> j - 1]]
    ELSE LET p == notAtMax(ind, m, r)
         IN  IF p = 0 THEN [res |-> "done", val |-> <<>>, indices |-> ind]
             ELSE [res |-> "yield", val |-> Ref, indices |-> advance(ind, p)]

----------------------------------------------------------------------------
(* permutations(iterable, r) of the earlier version, by cycle counters    *)

\* r = r || n: no r, or r = 0, stands for the pool length
lengthOf(r, m) == IF r = <<>> \/ r[1] = 0 THEN m ELSE r[1]

\* function pick_array(array, idx), idx holding indices counted from 0
pick_array(a, idx) == [i \in 1..Len(idx) |-> a[idx[i] + 1]]

\* the shift that does not put the index of position i back at the end
rotateLost(ind, i) ==
    [k \in 1..Len(ind) |-> IF k <= i \/ k = Len(ind) THEN ind[k] ELSE ind[k + 1]]

\* indices[k] = indices[k + 1] for k = i .. n-2, then
\* indices[n - 1] = indices_i; i is counted from 0
rotate(ind, i) ==
    [k \in 1..Len(ind) |-> IF k <= i THEN ind[k]
                           ELSE IF k = Len(ind) THEN ind[i + 1]
                           ELSE ind[k + 1]]

\* [indices[i], indices[n - j]] = [indices[n - j], indices[i]], positions
\* counted from 0
swap(ind, i, q) ==
    [ind EXCEPT ![i + 1] = ind[q + 1], ![q + 1] = ind[i + 1]]

\* the for loop of one turn of while (n), from position i downwards:
\* partner is the position the last swap took its second index from
RECURSIVE cycleStep(_, _, _, _, _)
cycleStep(a, r, ind, cyc, i) ==
    IF i < 0
    THEN [res |-> "done", val |-> <<>>,
          frames |-> [indices |-> ind, cycles |-> cyc, i |-> i, partner |-> i]]
    ELSE LET c == cyc[i + 1] - 1
         IN  IF c = 0
             THEN cycleStep(a, r, rotate(ind, i),
                            [cyc EXCEPT ![i + 1] = Len(a) - i], i - 1)
             ELSE LET nx == swap(ind, i, Len(a) - c)
                  IN  [res |-> "yield", val |-> pick_array(a, SubSeq(nx, 1, r)),
                       frames |-> [indices |-> nx,
                                   cycles |-> [cyc EXCEPT ![i + 1] = c],
                                   i |-> i, partner |-> Len(a) - c]]

\* next() on the cursor of permutations(pool, r), r being what the call
\* was handed after the pool
permutationsByCyclesNext(st, a, rs, fr) ==
    LET m == Len(a)
        r == lengthOf(rs, m)
    IN  IF st = "fresh"
        THEN IF r > m
             THEN [res |-> "done", val |-> <<>>, frames |-> fr]
             ELSE LET ind == [k \in 1..m |-> k - 1]   \* [...range(n)]
                      cyc == [k \in 1..r |-> m - k + 1] \* [...range(n, n - r, -1)]
                  IN  [res |-> "yield", val |-> pick_array(a, SubSeq(ind, 1, r)),
                       frames |-> [indices |-> ind, cycles |-> cyc,
                                   i |-> 0, partner |-> 0]]
        ELSE IF m = 0   \* while (n)
        THEN [res |-> "done", val |-> <<>>, frames |-> fr]
        ELSE cycleStep(a, r, fr.indices, fr.cycles, r - 1)

----------------------------------------------------------------------------
(* The calls *)

\* pools of every length: distinct ascending values, distinct descending
\* values, one value repeated
Pools ==
    UNION {{Iota(k), [i \in 1..k |-> k + 1 - i], [i \in 1..k |-> 1]} :
           k \in 0..MaxN}

SizeVectors == UNION {[1..g -> (0 - 1)..(MaxN + 1)] : g \in 1..MaxG}

\* the argument lists of zip and product: arrays and generator objects,
\* where a generator object may be handed over more than once
ArgLists ==
    UNION {{f \in [1..k -> [gen : BOOLEAN, id : 1..k, len : 0..MaxLen]] :
             \A p \in 1..k :
                /\ f[p].id <= p
                /\ ~f[p].gen => f[p].id = p
                /\ f[p].id < p => /\ f[f[p].id].gen
                                  /\ f[f[p].id].id = f[p].id
                                  /\ f[f[p].id].len = f[p].len} : k \in 0..MaxK}

\* iterables.map((i) => i[Symbol.iterator]()): nothing is read yet
newIterators(args) ==
    [id \in 1..Len(args) |-> [pos |-> 0, len |-> args[id].len, adv |-> 0]]

\* the index sequences handed to take, in any order and out of range too
IndexLists == UNION {[1..k -> (0 - 1)..(MaxLen + 1)] : k \in 0..MaxIdx}

\* what cycle and repeat are handed after their first argument
Counts == {<<>>} \cup {<<t>> : t \in (0 - 1)..MaxTimes}

\* the argument lists of range: stop alone, start and stop, or all three
RangeArgs ==
    LET V == (0 - MaxStop)..MaxStop
    IN  {<<a>> : a \in V} \cup {<<a, b>> : a, b \in V}
          \cup {<<a, b, c>> : a, b \in V, c \in (0 - MaxStep)..MaxStep}

Init ==
    /\ status = "fresh" /\ error = "none" /\ out = <<>> /\ after = 0
    /\ frames = <<>> /\ unused = <<>>
    /\ \/ /\ op = "combinations"
          /\ array \in Pools /\ n \in (0 - 1)..(MaxN + 1)
          /\ return_unused \in BOOLEAN
          /\ rest = <<>> /\ sizes = <<>> /\ iterables = <<>>
          /\ iterators = <<>> /\ indices = <<>>
       \/ /\ op = "permutations"
          /\ array \in Pools
          /\ rest \in {<<>>} \cup {<<r>> : r \in 0..(MaxN + 1)}
          /\ n = 0 /\ return_unused = FALSE /\ sizes = <<>> /\ iterables = <<>>
          /\ iterators = <<>> /\ indices = <<>>
       \/ /\ op = "partitions"
          /\ array \in Pools /\ sizes \in SizeVectors
          /\ n = 0 /\ return_unused = FALSE /\ rest = <<>> /\ iterables = <<>>
          /\ iterators = <<>> /\ indices = <<>>
       \/ /\ op \in {"zip", "product"}
          /\ iterables \in ArgLists
          /\ op = "product" => Len(iterables) >= 1
          /\ iterators = newIterators(iterables)
          /\ array = <<>> /\ n = 0 /\ return_unused = FALSE /\ rest = <<>>
          /\ sizes = <<>> /\ indices = <<>>
       \/ /\ op = "chain"
          /\ iterables \in ArgLists
          /\ iterators = newIterators(iterables)
          /\ array = <<>> /\ n = 0 /\ return_unused = FALSE /\ rest = <<>>
          /\ sizes = <<>> /\ indices = <<>>
       \/ /\ op = "take"
          /\ iterables \in {a \in ArgLists : Len(a) = 1}
                          \cup {<<[gen |-> TRUE, id |-> 1, len |-> Endless]>>}
          /\ indices \in IndexLists
          /\ iterators = newIterators(iterables)
          /\ array = <<>> /\ n = 0 /\ return_unused = FALSE /\ rest = <<>>
          /\ sizes = <<>>
       \/ /\ op = "take_cached"
          /\ iterables \in {a \in ArgLists : Len(a) = 1}
                          \cup {<<[gen |-> TRUE, id |-> 1, len |-> Endless]>>}
          /\ indices \in IndexLists
          /\ iterators = newIterators(iterables)
          /\ array = <<>> /\ n = 0 /\ return_unused = FALSE /\ rest = <<>>
          /\ sizes = <<>>
       \/ /\ op = "cycle"
          /\ iterables \in {a \in ArgLists : Len(a) = 1}
          /\ rest \in Counts
          /\ iterators = newIterators(iterables)
          /\ array = <<>> /\ n = 0 /\ return_unused = FALSE
          /\ sizes = <<>> /\ indices = <<>>
       \/ /\ op = "range"
          /\ rest \in RangeArgs
          /\ array = <<>> /\ n = 0 /\ return_unused = FALSE /\ sizes = <<>>
          /\ iterables = <<>> /\ iterators = <<>> /\ indices = <<>>
       \/ /\ op = "combination_indices"
          /\ n \in 0..MaxN
          /\ rest \in {<<r>> : r \in (0 - 1)..(MaxN + 1)}
          /\ array = <<>> /\ return_unused = FALSE /\ sizes = <<>>
          /\ iterables = <<>> /\ iterators = <<>> /\ indices = <<>>
       \/ /\ op = "permutations_by_cycles"
          /\ array \in Pools
          /\ rest \in {<<>>} \cup {<<r>> : r \in 0..(MaxN + 1)}
          /\ n = 0 /\ return_unused = FALSE /\ sizes = <<>> /\ iterables = <<>>
          /\ iterators = <<>> /\ indices = <<>>
       \/ /\ op = "repeat"
          /\ array \in {<<v>> : v \in 1..2}
          /\ rest \in Counts
          /\ n = 0 /\ return_unused = FALSE /\ sizes = <<>> /\ iterables = <<>>
          /\ iterators = <<>> /\ indices = <<>>
    /\ pool = array

Args == <<op, pool, n, return_unused, rest, sizes, iterables, indices>>

\* the state of a generator object once its body has run to res: suspended
\* at a yield, or completed by a return or a throw
statusRestarted(res) ==
    IF res = "yield" THEN "suspended"
    ELSE IF res = "hang" THEN "hung" ELSE "fresh"

statusAfter(res) ==
    IF res = "yield" THEN "suspended"
    ELSE IF res = "hang" THEN "hung" ELSE "done"

\* what an advance that ran the generator body to r.res leaves behind
Outcome(r) ==
    /\ status' = statusAfter(r.res)
    /\ error' = IF r.res = "throw" THEN "RangeError" ELSE error
    /\ out' = IF r.res = "yield" THEN Append(out, r.val) ELSE out
    /\ after' = IF r.res = "done" THEN 1 ELSE 0

\* the generator body can be run on: it has not completed and is not stuck
\* inside an advance
Live == status \in {"fresh", "suspended"}

\* next() on a cursor whose generator has finished
NextDone ==
    /\ status = "done" /\ after < MaxAfter
    /\ after' = after + 1
    /\ UNCHANGED <<Args, array, status, error, out, frames, unused, iterators>>

NextCombinations ==
    /\ op = "combinations" /\ Live
    /\ LET r == combinationsNext(status, array, n, return_unused, frames, unused)
       IN  /\ Outcome(r)
           /\ frames' = r.frames
           /\ unused' = r.unused
    /\ UNCHANGED <<Args, array, iterators>>

NextPermutations ==
    /\ op = "permutations" /\ Live
    /\ LET r == permutationsNext(status, array, frames)
       IN  /\ Outcome(r)
           /\ frames' = r.frames
           /\ array' = r.array
    /\ UNCHANGED <<Args, unused, iterators>>

NextPartitions ==
    /\ op = "partitions" /\ Live
    /\ LET r == partitionsNext(status, array, sizes, frames)
       IN  /\ Outcome(r)
           /\ frames' = r.frames
    /\ UNCHANGED <<Args, array, unused, iterators>>

NextProduct ==
    /\ op = "product" /\ Live
    /\ LET m == IF status = "fresh"
                THEN materialize(iterables, iterators, 1, <<>>)
                ELSE [arrays |-> frames.arrays, iterators |-> iterators]
           r == productNext(status, m.arrays, frames.idx)
       IN  /\ Outcome(r)
           /\ frames' = [arrays |-> m.arrays, idx |-> r.idx]
           /\ iterators' = m.iterators
    /\ UNCHANGED <<Args, array, unused>>

NextZip ==
    /\ op = "zip" /\ Live
    /\ Len(iterables) = 0 => Len(out) < MaxOut
    /\ LET r == zipNext(iterables, iterators)
       IN  /\ Outcome(r)
           /\ iterators' = r.iterators
    /\ UNCHANGED <<Args, array, frames, unused>>

NextChain ==
    /\ op = "chain" /\ Live
    /\ LET r == chainNext(status, iterables, iterators, frames)
       IN  /\ Outcome(r)
           /\ frames' = r.p
           /\ iterators' = r.iterators
    /\ UNCHANGED <<Args, array, unused>>

NextTake ==
    /\ op = "take" /\ Live
    /\ LET fr == IF status = "fresh" THEN [i |-> 0, ip |-> 0] ELSE frames
           r  == takeNext(iterables[1], iterators[1], indices, fr)
       IN  /\ Outcome(r)
           /\ frames' = [i |-> r.i,
                         ip |-> IF fr.ip < Len(indices) THEN fr.ip + 1 ELSE fr.ip]
           /\ iterators' = [iterators EXCEPT ![1] = r.iterator]
    /\ UNCHANGED <<Args, array, unused>>

NextTakeCached ==
    /\ op = "take_cached" /\ Live
    /\ LET fr == IF status = "fresh" THEN TakeFrame(0, 0, <<>>, FALSE)
                 ELSE frames
           r  == takeCachedNext(iterables[1], iterators[1], indices, fr)
       IN  /\ Outcome(r)
           /\ frames' = r.frames
           /\ iterators' = [iterators EXCEPT ![1] = r.iterator]
    /\ UNCHANGED <<Args, array, unused>>

NextCycle ==
    /\ op = "cycle" /\ Live
    /\ rest = <<>> => Len(out) < MaxOut
    /\ LET c == IF status = "fresh" THEN countOf(rest) ELSE frames
           r == cycleNext(status, iterables[1], iterators[1], c)
       IN  /\ Outcome(r)
           /\ frames' = r.n
           /\ iterators' = [iterators EXCEPT ![1] = r.iterator]
    /\ UNCHANGED <<Args, array, unused>>

NextRepeat ==
    /\ op = "repeat" /\ Live
    /\ rest = <<>> => Len(out) < MaxOut
    /\ LET c == IF status = "fresh" THEN countOf(rest) ELSE frames
           r == repeatNext(array[1], c)
       IN  /\ Outcome(r)
           /\ frames' = r.n
    /\ UNCHANGED <<Args, array, unused, iterators>>

NextRange ==
    /\ op = "range" /\ Live
    /\ rangeArgs(rest).step = 0 => Len(out) < MaxOut
    /\ LET r == rangeNext(status, rangeArgs(rest), frames)
       IN  /\ Outcome(r)
           /\ frames' = r.i
    /\ UNCHANGED <<Args, array, unused, iterators>>

NextCombinationIndices ==
    /\ op = "combination_indices" /\ Live
    /\ LET r == combination_indicesNext(status, n, rest[1], array)
       IN  /\ Outcome(r)
           /\ array' = r.indices
    /\ UNCHANGED <<Args, frames, unused, iterators>>

NextPermutationsByCycles ==
    /\ op = "permutations_by_cycles" /\ Live
    /\ LET r == permutationsByCyclesNext(status, array, rest, frames)
       IN  /\ Outcome(r)
           /\ frames' = r.frames
    /\ UNCHANGED <<Args, array, unused, iterators>>

Next ==
    \/ NextRange
    \/ NextPermutationsByCycles
    \/ NextCombinationIndices
    \/ NextCombinations
    \/ NextPermutations
    \/ NextPartitions
    \/ NextProduct
    \/ NextZip
    \/ NextChain
    \/ NextTake
    \/ NextTakeCached
    \/ NextCycle
    \/ NextRepeat
    \/ NextDone

Spec == Init /\ [][Next]_vars

----------------------------------------------------------------------------
(* Two cursors over one array.  Two calls of permutations or of           *)
(* combinations are handed the same array; status, error, out, frames and *)
(* unused hold one entry per cursor, and `array` is the array both calls  *)
(* were handed.                                                           *)

InitPair ==
    /\ op \in {"permutations", "combinations"}
    /\ array \in Pools
    /\ n \in IF op = "combinations" THEN 0..(MaxN + 1) ELSE {0}
    /\ return_unused = FALSE /\ rest = <<>> /\ sizes = <<>>
    /\ iterables = <<>> /\ iterators = <<>> /\ indices = <<>>
    /\ status = <<"fresh", "fresh">> /\ error = <<"none", "none">>
    /\ out = <<<<>>, <<>>>> /\ frames = <<<<>>, <<>>>>
    /\ unused = <<<<>>, <<>>>> /\ after = 0
    /\ pool = array

\* next() on cursor c
AdvancePair(c) ==
    /\ status[c] \in {"fresh", "suspended"}
    /\ LET r == IF op = "permutations"
                THEN permutationsNext(status[c], array, frames[c])
                ELSE combinationsNext(status[c], array, n, return_unused,
                                      frames[c], unused[c])
       IN  /\ status' = [status EXCEPT ![c] = statusAfter(r.res)]
           /\ error' = [error EXCEPT
                           ![c] = IF r.res = "throw" THEN "RangeError" ELSE @]
           /\ out' = [out EXCEPT
                         ![c] = IF r.res = "yield" THEN Append(@, r.val) ELSE @]
           /\ frames' = [frames EXCEPT ![c] = r.frames]
           /\ unused' = [unused EXCEPT
                            ![c] = IF op = "permutations" THEN @ ELSE r.unused]
           /\ array' = IF op = "permutations" THEN r.array ELSE array
    /\ UNCHANGED <<Args, after, iterators>>

NextPair ==
    \/ AdvancePair(1)
    \/ AdvancePair(2)

SpecPair == InitPair /\ [][NextPair]_vars

----------------------------------------------------------------------------
(* Index vectors, their lexicographic order, and counts *)

RECURSIVE Factorial(_)
Factorial(k) == IF k <= 0 THEN 1 ELSE k * Factorial(k - 1)

Binomial(k, r) == Factorial(k) \div (Factorial(r) * Factorial(k - r))

LexLess(a, b) ==
    \E i \in 1..Len(a) : a[i] < b[i] /\ \A j \in 1..(i - 1) : a[j] = b[j]

\* the vectors of S in lexicographic order
SortLex(S) ==
    LET rank == [v \in S |-> Cardinality({w \in S : LexLess(w, v)})]
    IN  [i \in 1..Cardinality(S) |-> CHOOSE v \in S : rank[v] = i - 1]

\* the strictly increasing vectors of length r over 1..k
IncreasingVectors(k, r) ==
    {v \in [1..r -> 1..k] : \A i \in 1..(r - 1) : v[i] < v[i + 1]}

\* the orderings of 1..k
Orderings(k) ==
    {v \in [1..k -> 1..k] : \A i, j \in 1..k : i # j => v[i] # v[j]}

LexCombinations ==
    [k \in 0..MaxN |-> [r \in 0..k |-> SortLex(IncreasingVectors(k, r))]]

LexPermutations == [k \in 0..MaxN |-> SortLex(Orderings(k))]

\* [pool[i1], ..., pool[ir]]
Pick(a, idx) == [i \in 1..Len(idx) |-> a[idx[i]]]

PickAll(a, vectors) == [i \in 1..Len(vectors) |-> Pick(a, vectors[i])]

IsPrefix(a, b) == Len(a) <= Len(b) /\ a = SubSeq(b, 1, Len(a))

\* what the cursor has yielded is the start of the list e, and all of it
\* once the cursor is exhausted
Enumerates(e) ==
    /\ error = "none"
    /\ IsPrefix(out, e)
    /\ status = "suspended" => Len(out) >= 1
    /\ status = "done" => out = e

----------------------------------------------------------------------------
(* Claims *)

\* C1: for a pool of length k and 1 <= r <= k, combinations(pool, r) yields
\* [pool[i1], ..., pool[ir]] for every strictly increasing index vector, each
\* once, in lexicographic order of the index vectors.
C1_CombinationsLexOrder ==
    (op = "combinations" /\ ~return_unused /\ n >= 1 /\ n <= Len(pool))
        => Enumerates(PickAll(pool, LexCombinations[Len(pool)][n]))

C1_Witness ==
    /\ op = "combinations" /\ ~return_unused /\ status = "done"
    /\ pool = <<1, 2, 3, 4>> /\ n = 2
    /\ out = <<<<1, 2>>, <<1, 3>>, <<1, 4>>, <<2, 3>>, <<2, 4>>, <<3, 4>>>>

\* C2: permutations(pool) with nothing after the pool yields all orderings
\* of the pool positions, each once, in lexicographic order of the index
\* tuples; the first is the pool as it is and the last is the pool reversed.
C2_PermutationsLexOrder ==
    (op = "permutations" /\ rest = <<>>)
        => LET k == Len(pool)
           IN  /\ Enumerates(PickAll(pool, LexPermutations[k]))
               /\ Len(out) >= 1 => out[1] = pool
               /\ status = "done" =>
                    /\ Len(out) = Factorial(k)
                    /\ out[Len(out)] = [i \in 1..k |-> pool[k + 1 - i]]

C2_Witness ==
    /\ op = "permutations" /\ rest = <<>> /\ status = "done"
    /\ out = <<<<1, 2, 3>>, <<1, 3, 2>>, <<2, 1, 3>>, <<2, 3, 1>>,
               <<3, 1, 2>>, <<3, 2, 1>>>>

RECURSIVE Sum(_)
Sum(v) == IF v = <<>> THEN 0 ELSE Head(v) + Sum(Tail(v))

RECURSIVE Product(_)
Product(v) == IF v = <<>> THEN 1 ELSE Head(v) * Product(Tail(v))

RECURSIVE Flatten(_)
Flatten(groups) ==
    IF groups = <<>> THEN <<>> ELSE Head(groups) \o Flatten(Tail(groups))

Distinct(list) ==
    \A i, j \in 1..Len(list) : i # j => list[i] # list[j]

Increasing(v) == \A i \in 1..(Len(v) - 1) : v[i] < v[i + 1]

\* the pool holds its own positions, so that a yielded value names the
\* position it was taken from
PositionPool == pool = Iota(Len(pool))

\* C3: for k >= r >= 1, permutations(pool, r) yields exactly k!/(k-r)!
\* outputs, each an array of length r, pairwise distinct as index tuples.
C3_PermutationsOfLengthR ==
    (op = "permutations" /\ rest # <<>> /\ PositionPool)
        => ((rest[1] >= 1 /\ rest[1] <= Len(pool))
            => /\ \A i \in 1..Len(out) : Len(out[i]) = rest[1]
               /\ Distinct(out)
               /\ status = "done" =>
                    Len(out) = Factorial(Len(pool))
                                 \div Factorial(Len(pool) - rest[1]))

\* C4: for every pool and every size vector whose entries sum to the pool
\* length, partitions yields exactly |pool|!/prod(sizes[i]!) outputs; in each
\* the i-th group has sizes[i] elements, the groups are disjoint sets of pool
\* positions and their union is the pool.
C4_PartitionsCount ==
    (/\ op = "partitions" /\ PositionPool
     /\ \A i \in 1..Len(sizes) : sizes[i] >= 0
     /\ Sum(sizes) = Len(pool))
        => /\ error = "none"
           /\ \A i \in 1..Len(out) :
                /\ Len(out[i]) = Len(sizes)
                /\ \A g \in 1..Len(sizes) : Len(out[i][g]) = sizes[g]
                /\ Distinct(Flatten(out[i]))
                /\ {Flatten(out[i])[j] : j \in 1..Len(pool)} = 1..Len(pool)
           /\ status = "done" =>
                Len(out) * Product([g \in 1..Len(sizes) |-> Factorial(sizes[g])])
                    = Factorial(Len(pool))

C4_Witness ==
    /\ op = "partitions" /\ pool = <<1, 2, 3>> /\ sizes = <<0, 3>>
    /\ status = "done" /\ error = "RangeError"

\* no generator object is handed over twice: every argument is read through
\* a cursor of its own
DistinctCursors == \A p \in 1..Len(iterables) : iterables[p].id = p

Lens == [p \in 1..Len(iterables) |-> iterables[p].len]

\* the coordinate index tuples of the cartesian product
Coordinates(lens) ==
    {v \in [1..Len(lens) -> 1..MaxLen] : \A p \in 1..Len(lens) : v[p] <= lens[p]}

\* [seq_1[v[1]], ..., seq_k[v[k]]]
Tuple(v) == [p \in 1..Len(iterables) |-> ValsOf(iterables[p])[v[p]]]

\* C5: product(seq_1, ..., seq_k), k >= 1, yields one tuple of length k per
\* element of the cartesian product, prod |seq_i| in all, in lexicographic
\* order of the coordinate index tuples (last coordinate fastest).
C5_ProductLexOrder ==
    (op = "product" /\ DistinctCursors)
        => LET e == SortLex(Coordinates(Lens))
           IN  /\ Enumerates([i \in 1..Len(e) |-> Tuple(e[i])])
               /\ Len(e) = Product(Lens)

C5_Witness ==
    /\ op = "product" /\ status = "done" /\ Len(iterables) = 2
    /\ ~iterables[1].gen /\ iterables[2].gen
    /\ out = <<<<11, 21>>, <<11, 22>>, <<12, 21>>, <<12, 22>>>>

\* C6: combinations(pool, r) with r <= 0 or r > |pool| raises a range error
\* on the first advance of its cursor, before any item has been yielded.
C6_CombinationsRangeError ==
    (op = "combinations" /\ (n <= 0 \/ n > Len(pool)))
        => /\ out = <<>>
           /\ status # "suspended"
           /\ status = "done" => error = "RangeError"

C6_Witness ==
    /\ op = "combinations" /\ pool = <<1, 2>> /\ n = 0
    /\ status = "done" /\ error = "RangeError" /\ out = <<>>

\* C7: partitions(pool, sizes) with sum(sizes) # |pool| raises a range error
\* before any partition has been yielded, whether the sum is too small or
\* too large.
C7_PartitionsRangeError ==
    (op = "partitions" /\ Sum(sizes) # Len(pool))
        => /\ out = <<>>
           /\ status # "suspended"
           /\ status = "done" => error = "RangeError"

C7_Witness ==
    /\ op = "partitions" /\ pool = <<1, 2, 3>> /\ sizes = <<1, 1>>
    /\ status = "done" /\ error = "RangeError" /\ out = <<>>

\* the claim of C8 for the pools and r with lo <= r <= |pool|
CombinationsCount(lo) ==
    (op = "combinations" /\ ~return_unused /\ PositionPool
     /\ n >= lo /\ n <= Len(pool))
        => /\ error = "none"
           /\ Distinct(out)
           /\ \A i \in 1..Len(out) : Increasing(out[i])
           /\ \A i \in 1..Len(out) : Len(out[i]) = n
           /\ status = "done" => Len(out) = Binomial(Len(pool), n)

\* C8 as stated: for all k >= r >= 0, r = 0 and k = 0 included,
\* combinations(pool, r) yields exactly k!/(r!(k-r)!) outputs, distinct as
\* index sets, each in strictly increasing pool-index order.
C8_CombinationsCountFromZero == CombinationsCount(0)

\* C8 as amended: the same for all k >= r >= 1; with r = 0 the cursor
\* raises a range error and yields nothing.
C8_CombinationsCount ==
    /\ CombinationsCount(1)
    /\ (op = "combinations" /\ n = 0 /\ status = "done")
          => (error = "RangeError" /\ out = <<>>)

C8_Witness ==
    /\ op = "combinations" /\ ~return_unused /\ pool = <<1, 2, 3, 4>>
    /\ n = 3 /\ status = "done" /\ Len(out) = 4

\* the positions of idxs that the vector c does not pick, in their order
Complement(idxs, c) ==
    LET keep == {i \in 1..Len(idxs) : \A j \in 1..Len(c) : c[j] # i}
        RECURSIVE from(_)
        from(i) == IF i > Len(idxs) THEN <<>>
                   ELSE IF i \in keep THEN <<idxs[i]>> \o from(i + 1)
                   ELSE from(i + 1)
    IN  from(1)

\* the nested order: the first group runs through the combinations of
\* idxs in combination order, and for each first group the partitions of
\* its complement by the other sizes follow in the same order
RECURSIVE NestedPartitions(_, _)
NestedPartitions(idxs, sz) ==
    IF Len(sz) = 1 THEN <<<<idxs>>>>
    ELSE LET cs == LexCombinations[Len(idxs)][sz[1]]
             under(c) ==
                LET inner == NestedPartitions(Complement(idxs, c), Tail(sz))
                IN  [i \in 1..Len(inner) |-> <<Pick(idxs, c)>> \o inner[i]]
             RECURSIVE all(_)
             all(i) == IF i > Len(cs) THEN <<>> ELSE under(cs[i]) \o all(i + 1)
         IN  all(1)

\* size vectors array_partitions walks to the end: they sum to the pool
\* length and every group but the last takes at least one element
Partitionable ==
    /\ Sum(sizes) = Len(pool)
    /\ \A g \in 1..Len(sizes) : sizes[g] >= (IF g < Len(sizes) THEN 1 ELSE 0)

\* C9: partitions enumerates in nested order, first group in combination
\* order, the partitions of its complement under it; the complement keeps
\* the pool order, so every group lists its elements by increasing pool
\* index; for a sorted pool the outputs strictly increase in nested
\* lexicographic order.
C9_PartitionsNestedOrder ==
    (op = "partitions" /\ Partitionable)
        => LET e == NestedPartitions(Iota(Len(pool)), sizes)
           IN  /\ Enumerates([i \in 1..Len(e) |->
                      [g \in 1..Len(sizes) |-> Pick(pool, e[i][g])]])
               /\ PositionPool =>
                    /\ \A i \in 1..Len(out) :
                          \A g \in 1..Len(sizes) : Increasing(out[i][g])
                    /\ \A i \in 1..(Len(out) - 1) :
                          LexLess(Flatten(out[i]), Flatten(out[i + 1]))

C9_Witness ==
    /\ op = "partitions" /\ pool = <<1, 2, 3, 4>> /\ sizes = <<2, 2>>
    /\ status = "done" /\ Len(out) = 6
    /\ out[1] = <<<<1, 2>>, <<3, 4>>>>
    /\ out[6] = <<<<3, 4>>, <<1, 2>>>>

\* the cursor of argument p has signalled exhaustion
Exhausted(p) == iterators[iterables[p].id].adv > iterables[p].len

MinLen ==
    CHOOSE m \in 0..MaxLen :
        /\ \A p \in 1..Len(iterables) : m <= iterables[p].len
        /\ \E p \in 1..Len(iterables) : m = iterables[p].len

\* C10: zip over k >= 1 inputs with pairwise distinct cursors yields
\* min |seq_i| tuples, the j-th being [seq_1[j], ..., seq_k[j]], and nothing
\* is yielded in or after the first step in which a cursor signals
\* exhaustion.
C10_ZipShortest ==
    (op = "zip" /\ Len(iterables) >= 1 /\ DistinctCursors)
        => /\ Enumerates([j \in 1..MinLen |->
                            [p \in 1..Len(iterables) |-> ValsOf(iterables[p])[j]]])
           /\ (\E p \in 1..Len(iterables) : Exhausted(p))
                 => (status = "done" /\ Len(out) = MinLen)
           /\ status = "done" => \E p \in 1..Len(iterables) : Exhausted(p)

C10_Witness ==
    /\ op = "zip" /\ Len(iterables) = 2 /\ DistinctCursors
    /\ iterables[1].len = 2 /\ iterables[2].len = 1 /\ iterables[1].gen
    /\ status = "done" /\ out = <<<<11, 21>>>>

----------------------------------------------------------------------------
(* chain, take, cycle, repeat *)

\* seq_1 ++ ... ++ seq_k
Concatenation ==
    Flatten([p \in 1..Len(iterables) |-> ValsOf(iterables[p])])

\* C11: chain over inputs with pairwise distinct cursors yields the
\* concatenation of the inputs, sum of the input lengths long, and the cursor
\* of an input is never advanced before the cursor of the input before it has
\* signalled exhaustion.
C11_ChainConcatenation ==
    (op = "chain" /\ DistinctCursors)
        => /\ Enumerates(Concatenation)
           /\ Len(Concatenation) = Sum(Lens)
           /\ \A p \in 1..(Len(iterables) - 1) :
                 iterators[p + 1].adv > 0 => Exhausted(p)

C11_Witness ==
    /\ op = "chain" /\ DistinctCursors /\ Len(iterables) = 3
    /\ iterables[1].gen /\ ~iterables[2].gen
    /\ iterables[1].len = 2 /\ iterables[2].len = 1 /\ iterables[3].len = 1
    /\ status = "suspended" /\ out = <<11, 12, 21>>
    /\ iterators[3].adv = 0 /\ Exhausted(1)


\* the items of the source at the given 0-based indices
Taken == [k \in 1..Len(indices) |-> ValsOf(iterables[1])[indices[k] + 1]]

InRange == \A k \in 1..Len(indices) :
               indices[k] >= 0 /\ indices[k] < iterables[1].len

\* C12: for a strictly increasing sequence of non-negative indices that all
\* lie inside the source, take(source, indices) yields source[i] for each
\* index i, in the order of the index sequence, and nothing else.
C12_TakeIncreasing ==
    (op = "take" /\ Increasing(indices) /\ InRange) => Enumerates(Taken)

C12_Witness ==
    /\ op = "take" /\ iterables[1].len = 3 /\ iterables[1].gen
    /\ indices = <<0, 2>>
    /\ status = "done" /\ out = <<11, 13>>


NonDecreasing(v) == \A i \in 1..(Len(v) - 1) : v[i] <= v[i + 1]

\* one item for each index: the item of the source there, and the value of a
\* finished iterator result (0, as in resultOf, for undefined) past its end
OnePerIndex ==
    [k \in 1..Len(indices) |->
        IF indices[k] < iterables[1].len
        THEN ValsOf(iterables[1])[indices[k] + 1] ELSE 0]

\* C13: for every finite non-decreasing index sequence, take(source, indices)
\* yields one item per index, the missing value for every index the source
\* ends before, so that the output is as long as the index sequence.
C13_TakeOnePerIndex ==
    (op = "take" /\ NonDecreasing(indices)
                 /\ \A k \in 1..Len(indices) : indices[k] >= 0)
        => Enumerates(OnePerIndex)


\* the list seq, t times over
RECURSIVE Times(_, _)
Times(list, t) == IF t <= 0 THEN <<>> ELSE list \o Times(list, t - 1)

\* C14: for every finite sequence, replayable or single-use, and every
\* integer times >= 0, cycle(seq, times) yields the full contents of seq in
\* order, times times over.
C14_CycleTimes ==
    (op = "cycle" /\ rest # <<>> /\ rest[1] >= 0)
        => /\ Enumerates(Times(ValsOf(iterables[1]), rest[1]))
           /\ status = "done" => Len(out) = rest[1] * iterables[1].len


\* C15: repeat(value, times) yields the value max(0, times) times for a
\* finite integer times and then signals exhaustion; with times omitted it
\* never signals exhaustion and every advance yields the value.
C15_RepeatTimes ==
    op = "repeat"
        => /\ rest # <<>>
                => Enumerates([k \in 1..rest[1] |-> array[1]])
           /\ rest = <<>>
                => /\ status \in {"fresh", "suspended"} /\ error = "none"
                   /\ status = "suspended" => Len(out) >= 1
                   /\ \A k \in 1..Len(out) : out[k] = array[1]

C15_Witness ==
    /\ op = "repeat" /\ rest = <<3>> /\ array = <<2>>
    /\ status = "done" /\ after >= 1 /\ out = <<2, 2, 2>>


----------------------------------------------------------------------------
(* Single-use arguments *)

\* everything the cursor of product yields over the given arrays, advanced
\* from state st until it signals exhaustion
RECURSIVE ProductRun(_, _, _, _)
ProductRun(arrays, st, idx, acc) ==
    LET r == productNext(st, arrays, idx)
    IN  IF r.res = "yield"
        THEN ProductRun(arrays, "suspended", r.idx, Append(acc, r.val))
        ELSE acc

\* arrays holding the elements of the arguments
AsArrays == [p \in 1..Len(iterables) |-> ValsOf(iterables[p])]

\* C17: product has consumed every single-use argument to its end before it
\* yields its first tuple, and over pairwise distinct generators it yields
\* the tuples that product over arrays of the same elements yields.
C17_ProductMaterializes ==
    op = "product"
        => /\ status # "fresh"
                => \A p \in 1..Len(iterables) : iterables[p].gen => Exhausted(p)
           /\ DistinctCursors
                => Enumerates(ProductRun(AsArrays, "fresh", <<>>, <<>>))

C17_Witness ==
    /\ op = "product" /\ DistinctCursors /\ Len(iterables) = 2
    /\ iterables[1].gen /\ iterables[2].gen
    /\ iterables[1].len = 2 /\ iterables[2].len = 3
    /\ status = "suspended" /\ out = <<<<11, 21>>>>
    /\ Exhausted(1) /\ Exhausted(2)


\* the same generator object is handed over as first and as second argument
SameTwice ==
    /\ Len(iterables) = 2
    /\ iterables[1].gen /\ iterables[2].gen /\ iterables[2].id = 1

\* C18: chain(x, x) over one single-use sequence x of length L yields the L
\* elements of x once; the second occurrence is exhausted already and
\* contributes nothing.
C18_ChainSameTwice ==
    (op = "chain" /\ SameTwice)
        => /\ Enumerates(ValsOf(iterables[1]))
           /\ status = "done" => Len(out) = iterables[1].len

C18_Witness ==
    /\ op = "chain" /\ SameTwice /\ iterables[1].len = 3
    /\ status = "done" /\ out = <<11, 12, 13>>

\* the pairs [x[2j], x[2j + 1]] of a list x
Pairs(x) == [j \in 1..(Len(x) \div 2) |-> <<x[2 * j - 1], x[2 * j]>>]

\* C19: zip(x, x) over one single-use sequence x of length L yields
\* floor(L / 2) pairs, the j-th being [x[2j], x[2j + 1]] counting from 0,
\* because the shared cursor is advanced once per argument in every step.
C19_ZipSameTwice ==
    (op = "zip" /\ SameTwice)
        => /\ Enumerates(Pairs(ValsOf(iterables[1])))
           /\ status = "done" => Len(out) = iterables[1].len \div 2

C19_Witness ==
    /\ op = "zip" /\ SameTwice /\ iterables[1].len = 3
    /\ status = "done" /\ out = <<<<11, 12>>>>


\* C20: permutations(pool, r) with r > |pool| yields nothing and raises no
\* error: the first advance of its cursor signals exhaustion.
C20_PermutationsLongerThanPool ==
    (op = "permutations" /\ rest # <<>> /\ rest[1] > Len(pool))
        => /\ error = "none" /\ out = <<>>
           /\ status # "fresh" => status = "done"


----------------------------------------------------------------------------
(* Lengths out of range, duplicate values, unused items *)

OutsidePool == rest # <<>> /\ (rest[1] <= 0 \/ rest[1] > Len(pool))

\* C21 as stated: permutations(pool, r) with r <= 0 or r > |pool| fails with
\* a domain error reported before the first output.
C21_PermutationsRangeError ==
    (op = "permutations" /\ OutsidePool /\ status # "fresh")
        => (error = "RangeError" /\ out = <<>>)

\* C21, amended: permutations(pool, r) with r <= 0 or r > |pool| raises no
\* error, on its first advance or on any later one.
C21_PermutationsNoError ==
    (op = "permutations" /\ OutsidePool) => error = "none"

C21_Witness ==
    /\ op = "permutations" /\ rest = <<0>> /\ pool = <<1, 2>>
    /\ status = "done" /\ error = "none" /\ Len(out) = 2


\* everything the cursor of permutations yields over the array a, advanced
\* from state st until it signals exhaustion
RECURSIVE PermutationsRun(_, _, _, _)
PermutationsRun(a, st, fr, acc) ==
    LET r == permutationsNext(st, a, fr)
    IN  IF r.res = "yield"
        THEN PermutationsRun(r.array, "suspended", r.frames, Append(acc, r.val))
        ELSE acc

\* the same for combinations(a, m): what it yields, and how it ends
RECURSIVE CombinationsRun(_, _, _, _, _, _)
CombinationsRun(a, m, st, fr, un, acc) ==
    LET r == combinationsNext(st, a, m, FALSE, fr, un)
    IN  IF r.res = "yield"
        THEN CombinationsRun(a, m, "suspended", r.frames, r.unused,
                             Append(acc, r.val))
        ELSE [out |-> acc, res |-> r.res]

\* C22: how many outputs permutations and combinations yield, and the pool
\* positions each output is built from, depend on the pool length (and r)
\* only: the outputs over a pool are, position for position, the outputs
\* over the pool of positions 1..n, so that equal values yield equal-looking
\* outputs.
C22_PositionsNotValues ==
    /\ op = "permutations"
          => Enumerates(PickAll(pool,
                 PermutationsRun(Iota(Len(pool)), "fresh", <<>>, <<>>)))
    /\ (op = "combinations" /\ ~return_unused)
          => LET run == CombinationsRun(Iota(Len(pool)), n, "fresh", <<>>, <<>>, <<>>)
             IN  IF run.res = "throw"
                 THEN out = <<>> /\ (status # "fresh" => error = "RangeError")
                 ELSE Enumerates(PickAll(pool, run.out))

C22_Witness ==
    /\ op = "permutations" /\ pool = <<1, 1, 1>> /\ status = "done"
    /\ out = <<<<1, 1, 1>>, <<1, 1, 1>>, <<1, 1, 1>>,
               <<1, 1, 1>>, <<1, 1, 1>>, <<1, 1, 1>>>>


\* a yielded item as it reads now: its last slot is an array of its own, or
\* the shared `unused` array as later advances have left it
ItemNow(v) ==
    SubSeq(v, 1, Len(v) - 1) \o <<Deref(v[Len(v)], unused)>>

\* the chosen elements followed by one array of the elements not chosen
WithUnused(a, c) == Pick(a, c) \o <<Complement(a, c)>>

\* C23: combinations(pool, n, true) yields, for every n-combination in
\* combination order, the n chosen elements followed by one array holding
\* the pool elements not chosen, in pool order; this holds for the items as
\* they read after later advances, the list collected at exhaustion
\* included.
C23_CombinationsUnused ==
    (op = "combinations" /\ return_unused /\ n >= 1 /\ n <= Len(pool))
        => LET e   == LexCombinations[Len(pool)][n]
               now == [i \in 1..Len(out) |-> ItemNow(out[i])]
           IN  /\ error = "none"
               /\ IsPrefix(now, [i \in 1..Len(e) |-> WithUnused(pool, e[i])])
               /\ status = "done" => Len(out) = Len(e)


\* C24: take yields one element per occurrence of an index when the
\* non-decreasing index sequence repeats an index; for indices
\* i_1 <= i_2 <= ... inside the source the output is source[i_1],
\* source[i_2], ....
C24_TakeRepeatedIndex ==
    (op = "take" /\ NonDecreasing(indices) /\ InRange) => Enumerates(Taken)

\* the one-to-one vectors of length r over 1..k
Arrangements(k, r) ==
    {v \in [1..r -> 1..k] : \A i, j \in 1..r : i # j => v[i] # v[j]}

\* C25: permutations(pool, r) for 1 <= r < n yields the r-length
\* arrangements in lexicographic order of their index tuples.
C25_PermutationsOfLengthRLexOrder ==
    (op = "permutations" /\ rest # <<>> /\ rest[1] >= 1 /\ rest[1] < Len(pool))
        => Enumerates(PickAll(pool, SortLex(Arrangements(Len(pool), rest[1]))))


----------------------------------------------------------------------------
(* range *)

\* start + k * step for k = 0, 1, 2, ... while it lies before stop in the
\* direction of the step
Progression(a) ==
    LET before(v) == IF a.step > 0 THEN v < a.stop ELSE v > a.stop
        K == {k \in 0..(2 * MaxStop) :
                 \A q \in 0..k : before(a.start + q * a.step)}
    IN  [k \in 1..Cardinality(K) |-> a.start + (k - 1) * a.step]

RangeRule ==
    (op = "range" /\ rangeArgs(rest).step # 0)
        => /\ Enumerates(Progression(rangeArgs(rest)))
           /\ \A k \in 1..Len(out) : out[k] # rangeArgs(rest).stop

----------------------------------------------------------------------------
(* The earlier version: combination_indices and permutations by cycles    *)

\* the vector v of positions 1..k as indices 0..k-1
ZeroBased(v) == [i \in 1..Len(v) |-> v[i] - 1]

\* C27: combination_indices(n, r) with 0 <= r <= n first emits
\* [0, ..., r-1]; every later emission is the lexicographic successor of the
\* one before among the strictly increasing length-r vectors over 0..n-1;
\* the last emission is [n-r, ..., n-1], after which the generator is
\* terminal, having emitted n!/(r!(n-r)!) vectors.  `array` is the vector
\* as the last advance emitted it.
C27_CombinationIndicesSuccessor ==
    (op = "combination_indices" /\ rest[1] >= 0 /\ rest[1] <= n)
        => LET r == rest[1]
               e == LexCombinations[n][r]
           IN  /\ error = "none"
               /\ Len(out) <= Len(e)
               /\ status = "suspended"
                    => /\ Len(out) >= 1
                       /\ array = ZeroBased(e[Len(out)])
               /\ (status = "suspended" /\ Len(out) = 1)
                    => array = [j \in 1..r |-> j - 1]
               /\ status = "done"
                    => /\ Len(out) = Binomial(n, r)
                       /\ array = [j \in 1..r |-> n - r + j - 1]

C27_Witness ==
    /\ op = "combination_indices" /\ n = 4 /\ rest = <<2>>
    /\ status = "done" /\ Len(out) = 6 /\ array = <<2, 3>>

\* C28: combination_indices(n, r) with r > n emits nothing and raises no
\* error; with r = n it emits one vector, [0, ..., n-1], and terminates.
C28_CombinationIndicesEdges ==
    op = "combination_indices"
        => /\ rest[1] > n
                => /\ error = "none" /\ out = <<>>
                   /\ status \in {"fresh", "done"}
           /\ rest[1] = n
                => /\ error = "none" /\ Len(out) <= 1
                   /\ status = "suspended"
                        => Len(out) = 1 /\ array = [j \in 1..n |-> j - 1]
                   /\ status = "done" => Len(out) = 1

C28_Witness ==
    /\ op = "combination_indices" /\ n = 2 /\ rest = <<3>>
    /\ status = "done" /\ after >= 1 /\ out = <<>>


\* the vectors handed out so far as they read now
VectorsNow == [i \in 1..Len(out) |-> Deref(out[i], array)]

\* C30: the index vectors yielded by combination_indices(n, r) are the same
\* consumed lazily or eagerly: a vector that has been yielded is not changed
\* by later advances, and the list collected by running the generator to
\* exhaustion holds the n!/(r!(n-r)!) distinct vectors in lexicographic
\* order.
C30_CombinationIndicesEager ==
    (op = "combination_indices" /\ rest[1] >= 0 /\ rest[1] <= n)
        => LET e == LexCombinations[n][rest[1]]
           IN  /\ IsPrefix(VectorsNow, [i \in 1..Len(e) |-> ZeroBased(e[i])])
               /\ status = "done" => Len(out) = Len(e) /\ Distinct(VectorsNow)


\* C29: in the cycle-based permutations(pool, r) with 1 <= r <= n, at every
\* yield the index array is a permutation of 0..n-1, every counter
\* cycles[i] lies in 1..n-i, and the position n - cycles[i] a swap takes its
\* partner from lies in i+1..n-1; the generator terminates after
\* n!/(n-r)! yields.
C29_PermutationsByCycles ==
    (/\ op = "permutations_by_cycles"
     /\ rest # <<>> /\ rest[1] >= 1 /\ rest[1] <= Len(pool))
        => LET m == Len(pool)
               r == rest[1]
           IN  /\ error = "none"
               /\ status = "suspended"
                    => /\ Len(out) >= 1
                       /\ Len(frames.indices) = m
                       /\ {frames.indices[k] : k \in 1..m} = 0..(m - 1)
                       /\ Len(frames.cycles) = r
                       /\ \A i \in 0..(r - 1) :
                             /\ frames.cycles[i + 1] >= 1
                             /\ frames.cycles[i + 1] <= m - i
                       /\ Len(out) >= 2
                            => /\ frames.partner >= frames.i + 1
                               /\ frames.partner <= m - 1
                               /\ frames.partner = m - frames.cycles[frames.i + 1]
               /\ status = "done"
                    => Len(out) = Factorial(m) \div Factorial(m - r)

C29_Witness ==
    /\ op = "permutations_by_cycles" /\ pool = <<1, 2, 3>> /\ rest = <<2>>
    /\ status = "done"
    /\ out = <<<<1, 2>>, <<1, 3>>, <<2, 1>>, <<2, 3>>, <<3, 1>>, <<3, 2>>>>


----------------------------------------------------------------------------
(* The caller's array, two cursors, sources without end *)

\* C31: permutations never changes the array the caller passed in: wherever
\* its cursor is suspended, and after exhaustion, the array has the length
\* and the contents, in the same order, that it had before the call.
C31_PermutationsLeavesArray ==
    op = "permutations" => array = pool


\* what a cursor of the call yields when it is the only one
Alone ==
    IF op = "permutations"
    THEN [out |-> PermutationsRun(pool, "fresh", <<>>, <<>>), res |-> "done"]
    ELSE CombinationsRun(pool, n, "fresh", <<>>, <<>>, <<>>)

\* C32: two cursors made by two calls of an engine operation on the same
\* array, advanced in any interleaving, each yield the sequence they yield
\* when run alone.
C32_CursorsIndependent ==
    \A c \in 1..2 :
        /\ IsPrefix(out[c], Alone.out)
        /\ status[c] = "done" => out[c] = Alone.out
        /\ error[c] # "none" => Alone.res = "throw"


EndlessSource == iterables[1].len = Endless

\* C33: for an infinite source and a finite, strictly increasing,
\* non-negative index sequence take terminates: it yields one item per
\* index, and the advance that follows the last item signals exhaustion
\* without reading the source any further.
C33_TakeEndlessSource ==
    (/\ op = "take" /\ EndlessSource /\ Increasing(indices)
     /\ \A k \in 1..Len(indices) : indices[k] >= 0)
        => /\ Enumerates([k \in 1..Len(indices) |->
                             itemOf(iterables[1], indices[k] + 1)])
           /\ status # "hung"
           /\ iterators[1].adv =
                 IF out = <<>> THEN 0 ELSE indices[Len(out)] + 1

C33_Witness ==
    /\ op = "take" /\ EndlessSource /\ indices = <<1, 3>>
    /\ status = "done" /\ out = <<12, 14>> /\ iterators[1].adv = 4


\* the largest index requested
Largest(v) == CHOOSE m \in {v[k] : k \in 1..Len(v)} :
                  \A k \in 1..Len(v) : v[k] <= m

\* C34: take traverses its source in one forward pass: the source cursor is
\* advanced at most (largest requested index + 1) times in all, and not at
\* all when the index sequence is empty.  The index sequences are the
\* non-decreasing, non-negative ones take is specified for.
C34_TakeSinglePass ==
    (/\ op = "take" /\ NonDecreasing(indices)
     /\ \A k \in 1..Len(indices) : indices[k] >= 0)
        => /\ indices = <<>> => iterators[1].adv = 0
           /\ indices # <<>> => iterators[1].adv <= Largest(indices) + 1


\* C35: zip advances every one of its k cursors once in every step, the
\* step in which it stops included: when it signals exhaustion after m
\* tuples every input cursor has been advanced m + 1 times, so that a longer
\* single-use input has lost one element beyond the m that were zipped,
\* whatever its argument position.
C35_ZipAdvancesAll ==
    (op = "zip" /\ Len(iterables) >= 1 /\ DistinctCursors)
        => \A p \in 1..Len(iterables) :
              /\ status = "fresh" => iterators[p].adv = 0
              /\ status = "suspended" => iterators[p].adv = Len(out)
              /\ status = "done"
                   => /\ iterators[p].adv = Len(out) + 1
                      /\ iterables[p].len > Len(out)
                           => iterators[p].pos = Len(out) + 1

C35_Witness ==
    /\ op = "zip" /\ Len(iterables) = 2 /\ DistinctCursors
    /\ iterables[1].len = 1 /\ iterables[2].len = 3 /\ iterables[2].gen
    /\ status = "done" /\ Len(out) = 1
    /\ iterators[2].adv = 2 /\ iterators[2].pos = 2

\* C37: for every pool and every size vector partitions raises on the first
\* advance of its cursor, before any output, or never: no error occurs once
\* a partition has been yielded; and combinations with 1 <= r <= |pool|
\* never raises from its recursive calls.
C37_ErrorsOnlyAtFirstAdvance ==
    /\ op = "partitions" => (error # "none" => out = <<>>)
    /\ (op = "combinations" /\ n >= 1 /\ n <= Len(pool)) => error = "none"

C37_Witness ==
    /\ op = "partitions" /\ pool = <<1, 2, 3>> /\ sizes = <<1, 1>>
    /\ status = "done" /\ error = "RangeError" /\ out = <<>>

\* C38: every advance of a cycle cursor completes, with an item or with
\* exhaustion, for every finite pool, the empty pool included, and with
\* times omitted as well as given.
C38_CycleAdvanceCompletes ==
    (op = "cycle" /\ ~iterables[1].gen) => status # "hung"

\* C39: zip called with no input sequence never signals exhaustion: every
\* advance yields an empty tuple.
C39_ZipOfNothing ==
    (op = "zip" /\ Len(iterables) = 0)
        => /\ status \in {"fresh", "suspended"} /\ error = "none"
           /\ status = "suspended" => Len(out) >= 1
           /\ \A k \in 1..Len(out) : out[k] = <<>>

C39_Witness ==
    /\ op = "zip" /\ Len(iterables) = 0
    /\ status = "suspended" /\ out = <<<<>>, <<>>, <<>>>>


\* one value for each index: the source element there, or undefined (0)
\* where the source has no such place
ValuePerIndex ==
    [k \in 1..Len(indices) |->
        IF indices[k] >= 0
             /\ (EndlessSource \/ indices[k] < iterables[1].len)
        THEN itemOf(iterables[1], indices[k] + 1) ELSE 0]

\* C36: in the documented algorithm of take for a source that is no array,
\* for a finite index sequence in any order, with repeats, negative or
\* out-of-range entries, take yields one value per index in the order of the
\* index sequence: the source element at that index, or undefined when the
\* source has no such place.
C36_TakeCachedOnePerIndex ==
    (op = "take_cached" /\ iterables[1].gen)
        => Enumerates(ValuePerIndex) /\ status # "hung"

====
